---- MODULE Spec2Model ----
(***************************************************************************)
(* ConnectionsStorage (src/src/storage.ts): the airport registry, the two  *)
(* bit-matrix stores and getDestinationsForDatePair, the ranking engine.   *)
(*                                                                         *)
(* JavaScript arrays are sequences read through At (0-based).  The outer   *)
(* array of a store, one cell per day, is held as its length, the cells    *)
(* of the days a bit has been written to, and the cell every other day     *)
(* holds (DayCell reads any day).  Dates are instants in seconds since     *)
(* the epoch (Date.getTime() / 1000): 360 days of milliseconds do not fit  *)
(* the model checker's integers.                                           *)
(***************************************************************************)
EXTENDS Integers, Sequences, FiniteSets, TLC

VARIABLES
    startDate,        \* storage.ts:70
    airports,         \* storage.ts:59   Map<string, number>
    airportsArray,    \* storage.ts:64   string[]
    outboundStorage,  \* storage.ts:43   BitSet[][][]  [day][destination][stops]
    inboundStorage,   \* storage.ts:53   BitSet[][][]  [day][origin][stops]
    connections,      \* history: the connections setConnection has stored
    call,             \* the caller: idle, or the call whose outcome it holds
    thrown,           \* what the last call threw: "none" or the error's kind
    result            \* what the last call returned

vars == <<startDate, airports, airportsArray, outboundStorage, inboundStorage,
          connections, call, thrown, result>>

storeVars == <<airports, airportsArray, outboundStorage, inboundStorage>>

-----------------------------------------------------------------------------
(* Program constants *)

MAX_STOPS_SUPPORTED == 2

MAX_DAYS_SUPPORTED == 360

SECONDS_PER_DAY == 86400

\* new Date("2025-01-01"), the fixture's and the benchmark's start date
FIXED_DATE == 1735689600

-----------------------------------------------------------------------------
(* JavaScript arrays *)

At(arr, i) == arr[i + 1]

SetAt(arr, i, v) == [arr EXCEPT ![i + 1] = v]

RECURSIVE Fill(_, _)
Fill(n, v) == IF n <= 0 THEN <<>> ELSE Append(Fill(n - 1, v), v)

Min(S) == CHOOSE x \in S : \A y \in S : x <= y

RECURSIVE Ascending(_)
Ascending(S) == IF S = {} THEN <<>> ELSE <<Min(S)>> \o Ascending(S \ {Min(S)})

RECURSIVE sumArray(_)
sumArray(arr) == IF arr = <<>> THEN 0 ELSE Head(arr) + sumArray(Tail(arr))

-----------------------------------------------------------------------------
(* The bitset library's BitSet.  s holds the bits that differ from the     *)
(* fill: the members when neg is FALSE, the non-members when neg is TRUE   *)
(* (an inverted set, all high bits one).                                   *)

EmptyBitSet == [s |-> {}, neg |-> FALSE]

BitSetOf(indices) == [s |-> {indices[k] : k \in DOMAIN indices}, neg |-> FALSE]

BitSetSet(b, i) == [b EXCEPT !.s = IF b.neg THEN @ \ {i} ELSE @ \cup {i}]

BitSetGet(b, i) == (i \in b.s) # b.neg

BitSetNot(b) == [b EXCEPT !.neg = ~@]

BitSetAnd(a, b) ==
    CASE ~a.neg /\ ~b.neg -> [s |-> a.s \cap b.s, neg |-> FALSE]
      [] ~a.neg /\ b.neg  -> [s |-> a.s \ b.s, neg |-> FALSE]
      [] a.neg /\ ~b.neg  -> [s |-> b.s \ a.s, neg |-> FALSE]
      [] a.neg /\ b.neg   -> [s |-> a.s \cup b.s, neg |-> TRUE]

BitSetOr(a, b) ==
    CASE ~a.neg /\ ~b.neg -> [s |-> a.s \cup b.s, neg |-> FALSE]
      [] ~a.neg /\ b.neg  -> [s |-> b.s \ a.s, neg |-> TRUE]
      [] a.neg /\ ~b.neg  -> [s |-> a.s \ b.s, neg |-> TRUE]
      [] a.neg /\ b.neg   -> [s |-> a.s \cap b.s, neg |-> TRUE]

BitSetCardinality(b) == IF b.neg THEN "Infinity" ELSE Cardinality(b.s)

BitSetToArray(b) == IF b.neg THEN Ascending(b.s) \o <<"Infinity">> ELSE Ascending(b.s)

-----------------------------------------------------------------------------
(* The store as one value, so that a handler's steps compose *)

Store == [airports |-> airports, airportsArray |-> airportsArray,
          outboundStorage |-> outboundStorage, inboundStorage |-> inboundStorage]

\* storage[day], for a day the array holds
DayCell(storage, day) ==
    IF day \in DOMAIN storage.days THEN storage.days[day] ELSE storage.rest

\* storage[day] is not undefined
DayDefined(storage, day) == day >= 0 /\ day < storage.len

\* the array after n times push([])
EmptyStorage(n) == [len |-> n, rest |-> <<>>, days |-> <<>>]

\* constructor: one empty day cell per supported day in both stores
EmptyStore ==
    [airports |-> <<>>, airportsArray |-> <<>>,
     outboundStorage |-> EmptyStorage(MAX_DAYS_SUPPORTED),
     inboundStorage |-> EmptyStorage(MAX_DAYS_SUPPORTED)]

Has(st, code) == code \in DOMAIN st.airports

\* a new anchor slot: MAX_STOPS_SUPPORTED + 1 empty bit vectors (k = 0..MAX)
NewAnchorSlot == Fill(MAX_STOPS_SUPPORTED + 1, EmptyBitSet)

\* addAirport's loop with every day cell built anew: the slots it held are dropped
PushAnchorOntoNewCells(storage) ==
    [len |-> storage.len,
     rest |-> Append(storage.rest, NewAnchorSlot),
     days |-> <<>>]

\* for (i = 0; i < MAX_DAYS_SUPPORTED; i++) storage[i].push(slot)
PushAnchor(storage) ==
    [len |-> storage.len,
     rest |-> Append(storage.rest, NewAnchorSlot),
     days |-> [d \in DOMAIN storage.days |-> Append(storage.days[d], NewAnchorSlot)]]

\* addAirport without its first line: a known code is registered again
addAirportWithoutHasCheck(st, airportCode) ==
    [airports |-> (airportCode :> Cardinality(DOMAIN st.airports)) @@ st.airports,
     airportsArray |-> Append(st.airportsArray, airportCode),
     outboundStorage |-> PushAnchor(st.outboundStorage),
     inboundStorage |-> PushAnchor(st.inboundStorage)]

\* addAirport: the store after the call
addAirport(st, airportCode) ==
    IF Has(st, airportCode) THEN st
    ELSE [airports |-> (airportCode :> Cardinality(DOMAIN st.airports)) @@ st.airports,
          airportsArray |-> Append(st.airportsArray, airportCode),
          outboundStorage |-> PushAnchor(st.outboundStorage),
          inboundStorage |-> PushAnchor(st.inboundStorage)]

\* addAirport: the value returned
addAirportReturns(st, airportCode) == ~Has(st, airportCode)

StopsValid(stops) == ~(stops < 0 \/ stops > MAX_STOPS_SUPPORTED)

\* _validateDateIndex: TRUE when it does not throw
DateIndexValid(index) == ~(index < 0 \/ index > MAX_DAYS_SUPPORTED)

\* _convertDateToArrayIndex before its validation: Math.floor of the day difference
DateIndex(date) == (date - startDate) \div SECONDS_PER_DAY

\* BitSet.set on storage[day][anchor][stops]
SetBit(storage, day, anchor, stops, bit) ==
    LET cell == DayCell(storage, day)
        written == SetAt(cell, anchor,
                         SetAt(At(cell, anchor), stops,
                               BitSetSet(At(At(cell, anchor), stops), bit)))
    IN  [storage EXCEPT !.days = (day :> written) @@ @]

\* setConnection with the inbound bit written on the arrival day
setConnectionInboundOnArrivalDay(st, conn) ==
    IF ~StopsValid(conn.stops) THEN [store |-> st, thrown |-> "StopsError"]
    ELSE
    LET st2 == addAirport(addAirport(st, conn.originAirportCode),
                          conn.destinationAirportCode)
        dateIndex == DateIndex(conn.date)
        arrivalDateIndex == dateIndex + conn.arriveNextDay
        originIndex == st2.airports[conn.originAirportCode]
        destinationIndex == st2.airports[conn.destinationAirportCode]
    IN  IF ~DateIndexValid(dateIndex) \/ ~DateIndexValid(arrivalDateIndex)
        THEN [store |-> st2, thrown |-> "DateError"]
        ELSE IF ~DayDefined(st2.outboundStorage, arrivalDateIndex)
             THEN [store |-> st2, thrown |-> "TypeError"]
        ELSE [store |-> [st2 EXCEPT
                            !.outboundStorage =
                                SetBit(@, arrivalDateIndex, destinationIndex, conn.stops,
                                       originIndex),
                            !.inboundStorage =
                                SetBit(@, arrivalDateIndex, originIndex, conn.stops,
                                       destinationIndex)],
              thrown |-> "none"]

\* setConnection: the store it leaves and what it throws
setConnection(st, conn) ==
    IF ~StopsValid(conn.stops) THEN [store |-> st, thrown |-> "StopsError"]
    ELSE
    LET st2 == addAirport(addAirport(st, conn.originAirportCode),
                          conn.destinationAirportCode)
        dateIndex == DateIndex(conn.date)
        arrivalDateIndex == dateIndex + conn.arriveNextDay
        originIndex == st2.airports[conn.originAirportCode]
        destinationIndex == st2.airports[conn.destinationAirportCode]
    IN  IF ~DateIndexValid(dateIndex) THEN [store |-> st2, thrown |-> "DateError"]
        ELSE IF ~DateIndexValid(arrivalDateIndex)
             THEN [store |-> st2, thrown |-> "DateError"]
        ELSE IF ~DayDefined(st2.outboundStorage, arrivalDateIndex)
             THEN [store |-> st2, thrown |-> "TypeError"]
        ELSE
        LET st3 == [st2 EXCEPT !.outboundStorage =
                       SetBit(@, arrivalDateIndex, destinationIndex, conn.stops,
                              originIndex)]
        IN  IF ~DayDefined(st3.inboundStorage, dateIndex)
            THEN [store |-> st3, thrown |-> "TypeError"]
            ELSE [store |-> [st3 EXCEPT !.inboundStorage =
                                SetBit(@, dateIndex, originIndex, conn.stops,
                                       destinationIndex)],
                  thrown |-> "none"]

-----------------------------------------------------------------------------
(* The ranking engine *)

Cell(storage, day, anchor, stops) == At(At(DayCell(storage, day), anchor), stops)

\* the three stop tiers of one day cell or-ed together
AnyStops(storage, day, anchor) ==
    BitSetOr(BitSetOr(Cell(storage, day, anchor, 0), Cell(storage, day, anchor, 1)),
             Cell(storage, day, anchor, 2))

\* the origins folded with the first entry of a code winning
OriginsMapFirstWins(origins) ==
    [c \in {origins[k].code : k \in DOMAIN origins} |->
        LET first == CHOOSE k \in DOMAIN origins :
                         /\ origins[k].code = c
                         /\ \A m \in DOMAIN origins : origins[m].code = c => m >= k
        IN  origins[first].count]

\* new Map(origins.map(({code, count}) => [code, count])): the last entry of a code wins
OriginsMap(origins) ==
    [c \in {origins[k].code : k \in DOMAIN origins} |->
        LET last == CHOOSE k \in DOMAIN origins :
                        /\ origins[k].code = c
                        /\ \A m \in DOMAIN origins : origins[m].code = c => m <= k
        IN  origins[last].count]

\* _prepareOriginVector without its filter: an unknown code sets the first bit
prepareOriginVectorUnfiltered(st, codes) ==
    [s |-> {st.airports[c] : c \in {x \in codes : Has(st, x)}}
           \cup (IF \E x \in codes : ~Has(st, x) THEN {0} ELSE {}),
     neg |-> FALSE]

\* _prepareOriginVector: the registered indices of the codes, unknown codes dropped
prepareOriginVector(st, codes) ==
    [s |-> {st.airports[c] : c \in {x \in codes : Has(st, x)}}, neg |-> FALSE]

\* getOutboundStopsCount with a two-stop hit counted once
getOutboundStopsCountTwoStopOnce(st, originsVector, outboundIndex, destinationIndex) ==
    LET outboundDirectNeg ==
            BitSetAnd(BitSetNot(Cell(st.outboundStorage, outboundIndex, destinationIndex, 0)),
                      originsVector)
        outboundOneStopNeg ==
            BitSetNot(Cell(st.outboundStorage, outboundIndex, destinationIndex, 1))
    IN  BitSetCardinality(
            BitSetAnd(Cell(st.outboundStorage, outboundIndex, destinationIndex, 1),
                      outboundDirectNeg))
        + BitSetCardinality(
              BitSetAnd(BitSetAnd(Cell(st.outboundStorage, outboundIndex, destinationIndex, 2),
                                  outboundDirectNeg),
                        outboundOneStopNeg))

getOutboundStopsCount(st, originsVector, outboundIndex, destinationIndex) ==
    LET outboundDirectNeg ==
            BitSetAnd(BitSetNot(Cell(st.outboundStorage, outboundIndex, destinationIndex, 0)),
                      originsVector)
        outboundOneStopCounter ==
            BitSetCardinality(
                BitSetAnd(Cell(st.outboundStorage, outboundIndex, destinationIndex, 1),
                          outboundDirectNeg))
        outboundOneStopNeg ==
            BitSetNot(Cell(st.outboundStorage, outboundIndex, destinationIndex, 1))
        outboundTwoStopCounter ==
            BitSetCardinality(
                BitSetAnd(BitSetAnd(Cell(st.outboundStorage, outboundIndex, destinationIndex, 2),
                                    outboundDirectNeg),
                          outboundOneStopNeg)) * 2
    IN  outboundOneStopCounter + outboundTwoStopCounter

\* getInboundStopsCount with the one-stop hits not masked by the direct connections
getInboundStopsCountIgnoringDirect(st, originsVector, inboundIndex, destinationIndex) ==
    LET inboundDirectNeg ==
            BitSetAnd(BitSetNot(Cell(st.inboundStorage, inboundIndex, destinationIndex, 0)),
                      originsVector)
        inboundOneStopCounter ==
            BitSetCardinality(
                BitSetAnd(Cell(st.inboundStorage, inboundIndex, destinationIndex, 1),
                          originsVector))
        inboundOneStopNeg ==
            BitSetNot(Cell(st.inboundStorage, inboundIndex, destinationIndex, 1))
        inboundTwoStopCounter ==
            BitSetCardinality(
                BitSetAnd(BitSetAnd(Cell(st.inboundStorage, inboundIndex, destinationIndex, 2),
                                    inboundDirectNeg),
                          inboundOneStopNeg)) * 2
    IN  inboundOneStopCounter + inboundTwoStopCounter

getInboundStopsCount(st, originsVector, inboundIndex, destinationIndex) ==
    LET inboundDirectNeg ==
            BitSetAnd(BitSetNot(Cell(st.inboundStorage, inboundIndex, destinationIndex, 0)),
                      originsVector)
        inboundOneStopCounter ==
            BitSetCardinality(
                BitSetAnd(Cell(st.inboundStorage, inboundIndex, destinationIndex, 1),
                          inboundDirectNeg))
        inboundOneStopNeg ==
            BitSetNot(Cell(st.inboundStorage, inboundIndex, destinationIndex, 1))
        inboundTwoStopCounter ==
            BitSetCardinality(
                BitSetAnd(BitSetAnd(Cell(st.inboundStorage, inboundIndex, destinationIndex, 2),
                                    inboundDirectNeg),
                          inboundOneStopNeg)) * 2
    IN  inboundOneStopCounter + inboundTwoStopCounter

\* getUnavailableOrigins without the skip of the current airport
getUnavailableOriginsWithSelf(st, availableConnections, originsVector, currentAirportIndex) ==
    LET arr == BitSetToArray(BitSetAnd(BitSetNot(availableConnections), originsVector))
    IN  [k \in DOMAIN arr |-> At(st.airportsArray, arr[k])]

getUnavailableOrigins(st, availableConnections, originsVector, currentAirportIndex) ==
    LET arr == BitSetToArray(BitSetAnd(BitSetNot(availableConnections), originsVector))
    IN  [k \in 1..Len(SelectSeq(arr, LAMBDA x : x # currentAirportIndex)) |->
            At(st.airportsArray, SelectSeq(arr, LAMBDA x : x # currentAirportIndex)[k])]

\* the weights of the origins first served on a shoulder day
ShoulderWeights(st, originsMap, temp) ==
    LET arr == BitSetToArray(temp)
    IN  [k \in DOMAIN arr |-> originsMap[At(st.airportsArray, arr[k])]]

\* One direction of one candidate before its shoulder loop: the anchor day
OutboundAnchor(st, originsVector, outboundIndex, i) ==
    LET available == AnyStops(st.outboundStorage, outboundIndex, i)
    IN  [available |-> available,
         count |-> BitSetCardinality(BitSetAnd(available, originsVector)),
         stops |-> getOutboundStopsCount(st, originsVector, outboundIndex, i),
         nights |-> 0,
         typeError |-> FALSE]

InboundAnchor(st, originsVector, inboundIndex, i) ==
    LET available == AnyStops(st.inboundStorage, inboundIndex, i)
    IN  [available |-> available,
         count |-> BitSetCardinality(BitSetAnd(available, originsVector)),
         stops |-> getInboundStopsCount(st, originsVector, inboundIndex, i),
         nights |-> 0,
         typeError |-> FALSE]

\* the outbound loop body counting every origin the shoulder day serves, served
\* before or not
OutboundShoulderStepCountsServedAgain(st, ctx, i, j, acc) ==
    LET day == ctx.outboundIndex - j
        aocSn == AnyStops(st.outboundStorage, day, i)
        currentRequiredOrigins == BitSetAnd(BitSetNot(acc.available), ctx.originsVector)
        temp == BitSetAnd(aocSn, ctx.originsVector)
    IN  [available |-> BitSetOr(acc.available, aocSn),
         count |-> acc.count + BitSetCardinality(temp),
         stops |-> acc.stops + getOutboundStopsCount(st, currentRequiredOrigins, day, i),
         nights |-> acc.nights
                    + sumArray(ShoulderWeights(st, ctx.originsMap,
                                               BitSetAnd(aocSn, currentRequiredOrigins))) * j,
         typeError |-> FALSE]

\* the body of the outbound shoulder loop for one j (storage.ts:376-403)
OutboundShoulderStep(st, ctx, i, j, acc) ==
    LET day == ctx.outboundIndex - j
        aocSn == AnyStops(st.outboundStorage, day, i)
        currentRequiredOrigins == BitSetAnd(BitSetNot(acc.available), ctx.originsVector)
        temp == BitSetAnd(aocSn, currentRequiredOrigins)
    IN  [available |-> BitSetOr(acc.available, aocSn),
         count |-> acc.count + BitSetCardinality(temp),
         stops |-> acc.stops + getOutboundStopsCount(st, currentRequiredOrigins, day, i),
         nights |-> acc.nights + sumArray(ShoulderWeights(st, ctx.originsMap, temp)) * j,
         typeError |-> FALSE]

\* the inbound loop body with the count assigned where it is added to
InboundShoulderStepCountAssigned(st, ctx, i, j, acc) ==
    LET day == ctx.inboundIndex + j
        aocSn == AnyStops(st.inboundStorage, day, i)
        currentRequiredOrigins == BitSetAnd(BitSetNot(acc.available), ctx.originsVector)
        temp == BitSetAnd(aocSn, currentRequiredOrigins)
    IN  [available |-> BitSetOr(acc.available, aocSn),
         count |-> BitSetCardinality(temp),
         stops |-> acc.stops + getInboundStopsCount(st, currentRequiredOrigins, day, i),
         nights |-> acc.nights + sumArray(ShoulderWeights(st, ctx.originsMap, temp)) * j,
         typeError |-> FALSE]

\* the body of the inbound shoulder loop for one j (storage.ts:427-453)
InboundShoulderStep(st, ctx, i, j, acc) ==
    LET day == ctx.inboundIndex + j
        aocSn == AnyStops(st.inboundStorage, day, i)
        currentRequiredOrigins == BitSetAnd(BitSetNot(acc.available), ctx.originsVector)
        temp == BitSetAnd(aocSn, currentRequiredOrigins)
    IN  [available |-> BitSetOr(acc.available, aocSn),
         count |-> acc.count + BitSetCardinality(temp),
         stops |-> acc.stops + getInboundStopsCount(st, currentRequiredOrigins, day, i),
         nights |-> acc.nights + sumArray(ShoulderWeights(st, ctx.originsMap, temp)) * j,
         typeError |-> FALSE]

\* for (let j = 1; j <= maxOutboundShoulderNights; j++) if (outboundCount < origins.length)
RECURSIVE OutboundShoulderLoop(_, _, _, _, _)
OutboundShoulderLoop(st, ctx, i, j, acc) ==
    IF j > ctx.maxOutboundShoulderNights \/ acc.typeError THEN acc
    ELSE IF acc.count < ctx.N
         THEN IF ~DayDefined(st.outboundStorage, ctx.outboundIndex - j)
              THEN [acc EXCEPT !.typeError = TRUE]
              ELSE OutboundShoulderLoop(st, ctx, i, j + 1,
                                        OutboundShoulderStep(st, ctx, i, j, acc))
         ELSE OutboundShoulderLoop(st, ctx, i, j + 1, acc)

\* for (let j = 1; j <= maxInboundShoulderNights; j++)
\*   if (inboundCount < origins.length && maxInboundShoulderNights > 0)
RECURSIVE InboundShoulderLoop(_, _, _, _, _)
InboundShoulderLoop(st, ctx, i, j, acc) ==
    IF j > ctx.maxInboundShoulderNights \/ acc.typeError THEN acc
    ELSE IF acc.count < ctx.N /\ ctx.maxInboundShoulderNights > 0
         THEN IF ~DayDefined(st.inboundStorage, ctx.inboundIndex + j)
              THEN [acc EXCEPT !.typeError = TRUE]
              ELSE InboundShoulderLoop(st, ctx, i, j + 1,
                                       InboundShoulderStep(st, ctx, i, j, acc))
         ELSE InboundShoulderLoop(st, ctx, i, j + 1, acc)

\* the outbound half for candidate i (storage.ts:355-406)
OutboundHalf(st, ctx, i) ==
    IF ~DayDefined(st.outboundStorage, ctx.outboundIndex)
    THEN [typeError |-> TRUE]
    ELSE LET anchor == OutboundAnchor(st, ctx.originsVector, ctx.outboundIndex, i)
         IN  IF anchor.count < ctx.N /\ ctx.maxOutboundShoulderNights > 0
             THEN OutboundShoulderLoop(st, ctx, i, 1, anchor)
             ELSE anchor

\* the inbound half for candidate i (storage.ts:408-456)
InboundHalf(st, ctx, i) ==
    IF ~DayDefined(st.inboundStorage, ctx.inboundIndex)
    THEN [typeError |-> TRUE]
    ELSE LET anchor == InboundAnchor(st, ctx.originsVector, ctx.inboundIndex, i)
         IN  IF anchor.count < ctx.N
             THEN InboundShoulderLoop(st, ctx, i, 1, anchor)
             ELSE anchor

\* result.push({...}) for candidate i
Emit(st, ctx, i, out, inb) ==
    [code |-> At(st.airportsArray, i),
     availableOrigins |-> out.count + inb.count,
     totalStops |-> out.stops + inb.stops,
     unavailableOutboundOrigins |->
         getUnavailableOrigins(st, out.available, ctx.originsVector, i),
     unavailableInboundOrigins |->
         getUnavailableOrigins(st, inb.available, ctx.originsVector, i),
     outboundShoulderNights |-> out.nights,
     inboundShoulderNights |-> inb.nights]

\* Array.prototype.sort with (a, b) => b.availableOrigins - a.availableOrigins:
\* a stable sort, so x goes behind every record that does not rank below it
\* the insertion of an unstable sort: x goes before the records it ties with
RECURSIVE InsertSortedBeforeTies(_, _)
InsertSortedBeforeTies(sorted, x) ==
    IF sorted = <<>> THEN <<x>>
    ELSE IF x.availableOrigins - Head(sorted).availableOrigins >= 0
         THEN <<x>> \o sorted
         ELSE <<Head(sorted)>> \o InsertSortedBeforeTies(Tail(sorted), x)

RECURSIVE InsertSorted(_, _)
InsertSorted(sorted, x) ==
    IF sorted = <<>> THEN <<x>>
    ELSE IF x.availableOrigins - Head(sorted).availableOrigins > 0
         THEN <<x>> \o sorted
         ELSE <<Head(sorted)>> \o InsertSorted(Tail(sorted), x)

RECURSIVE SortByAvailableOrigins(_)
SortByAvailableOrigins(arr) ==
    IF arr = <<>> THEN <<>>
    ELSE InsertSorted(SortByAvailableOrigins(SubSeq(arr, 1, Len(arr) - 1)), arr[Len(arr)])

\* result.slice(0, take) when take > 0, the whole list otherwise
Take(arr, take) ==
    IF take > 0 THEN SubSeq(arr, 1, IF take < Len(arr) THEN take ELSE Len(arr)) ELSE arr

\* what the call derives once: the folded origins, their vector, the anchor days
RankContext(st, q) ==
    LET originsMap == OriginsMap(q.origins)
    IN  [originsMap |-> originsMap,
         originsVector |-> prepareOriginVector(st, DOMAIN originsMap),
         outboundIndex |-> DateIndex(q.meetingStart),
         inboundIndex |-> DateIndex(q.meetingEnd),
         N |-> Len(q.origins),
         maxOutboundShoulderNights |-> q.maxOutboundShoulderNights,
         maxInboundShoulderNights |-> q.maxInboundShoulderNights]

\* the records in candidate order, before the sort
Candidates(st, ctx) ==
    [k \in 1..Len(st.airportsArray) |->
        LET out == OutboundHalf(st, ctx, k - 1)
            inb == IF out.typeError THEN out ELSE InboundHalf(st, ctx, k - 1)
        IN  IF out.typeError \/ inb.typeError THEN [typeError |-> TRUE]
            ELSE [typeError |-> FALSE, rec |-> Emit(st, ctx, k - 1, out, inb)]]

\* getDestinationsForDatePair: what it returns and what it throws
getDestinationsForDatePair(st, q) ==
    LET ctx == RankContext(st, q)
    IN  IF ~DateIndexValid(ctx.outboundIndex) \/ ~DateIndexValid(ctx.inboundIndex)
        THEN [thrown |-> "DateError", result |-> <<>>]
        ELSE LET cands == Candidates(st, ctx)
             IN  IF \E k \in DOMAIN cands : cands[k].typeError
                 THEN [thrown |-> "TypeError", result |-> <<>>]
                 ELSE [thrown |-> "none",
                       result |-> Take(SortByAvailableOrigins(
                                           [k \in DOMAIN cands |-> cands[k].rec]),
                                       q.take)]

-----------------------------------------------------------------------------
(* Inputs *)

Connection(o, d, date, stops, arriveNextDay) ==
    [originAirportCode |-> o, destinationAirportCode |-> d, date |-> date,
     stops |-> stops, arriveNextDay |-> arriveNextDay]

Origin(code, count) == [code |-> code, count |-> count]

Query(origins, meetingStart, meetingEnd, maxOut, maxIn, take) ==
    [origins |-> origins, meetingStart |-> meetingStart, meetingEnd |-> meetingEnd,
     maxOutboundShoulderNights |-> maxOut, maxInboundShoulderNights |-> maxIn,
     take |-> take]

\* midnight of the day-th day after the start date
DateOfDay(day) == FIXED_DATE + day * SECONDS_PER_DAY

\* the most connections a run stores
MaxConnections == 2

Codes == {"AAA", "BBB", "CCC"}

ConnectionPairs == {<<"AAA", "BBB">>, <<"BBB", "AAA">>}

\* around both ends of the supported range; the first and the last are not midnights
EdgeDates ==
    {DateOfDay(0) - 1, DateOfDay(0), DateOfDay(1), DateOfDay(360) - 1, DateOfDay(360),
     DateOfDay(361)}

StopsInputs == {-1, 0, 2, 3}

ConnectionInputs ==
    {Connection(od[1], od[2], date, stops, delta) :
        od \in ConnectionPairs, date \in EdgeDates,
        stops \in StopsInputs, delta \in {0, 1}}

OriginsInputs ==
    {<<>>, <<Origin("AAA", 1)>>, <<Origin("BBB", 2), Origin("ZZZ", 1)>>}

\* meeting start and end, in and out of the supported range
MeetingInputs ==
    {<<DateOfDay(0) - 1, DateOfDay(1)>>, <<DateOfDay(0), DateOfDay(1)>>,
     <<DateOfDay(1), DateOfDay(360) - 1>>, <<DateOfDay(1), DateOfDay(360)>>,
     <<DateOfDay(360), DateOfDay(1)>>, <<DateOfDay(1), DateOfDay(361)>>}

QueryInputs ==
    {Query(origins, meeting[1], meeting[2], maxOut, 1, 0) :
        origins \in OriginsInputs, meeting \in MeetingInputs, maxOut \in {0, 1}}

\* the most shoulder nights a query tolerates, and the largest take
MaxShoulder == 2
MaxTake == 2

\* every day and stop count from AAA to BBB, some more the other way and from and
\* to the others, and one connection that arrives the day after it departs
RankConnectionInputs ==
    {Connection("AAA", "BBB", DateOfDay(day), stops, 0) :
        day \in 0..2, stops \in 0..MAX_STOPS_SUPPORTED}
    \cup {Connection("BBB", "AAA", DateOfDay(2), 1, 0),
          Connection("BBB", "AAA", DateOfDay(1), 0, 0),
          Connection("BBB", "AAA", DateOfDay(1), 2, 0),
          Connection("BBB", "AAA", DateOfDay(0), 1, 0),
          Connection("BBB", "BBB", DateOfDay(2), 1, 0),
          Connection("BBB", "BBB", DateOfDay(1), 0, 0),
          Connection("CCC", "BBB", DateOfDay(2), 2, 0),
          Connection("CCC", "BBB", DateOfDay(1), 1, 0),
          Connection("CCC", "BBB", DateOfDay(0), 0, 0),
          Connection("AAA", "BBB", DateOfDay(0) + 3600, 1, 1)}

RankOriginsInputs ==
    { <<>>,
      <<Origin("AAA", 1)>>,
      <<Origin("AAA", 2), Origin("BBB", 3)>>,
      <<Origin("BBB", 1), Origin("CCC", 2), Origin("AAA", 1)>>,
      <<Origin("AAA", 1), Origin("AAA", 2)>>,
      <<Origin("BBB", 2), Origin("AAA", 3), Origin("BBB", 1)>>,
      <<Origin("AAA", 2), Origin("ZZZ", 1)>> }

TakeOriginsInputs ==
    { <<Origin("AAA", 2), Origin("BBB", 3)>>,
      <<Origin("BBB", 1), Origin("CCC", 2), Origin("AAA", 1)>> }

ShoulderInputs ==
    {<<m, m>> : m \in 0..MaxShoulder} \cup {<<0, MaxShoulder>>, <<MaxShoulder, 0>>}

\* the meeting starts on day 2 and ends on day 0, so that both shoulder windows are
\* days 0..2; everything is returned, or one night each way and the first take
RankQueryInputs ==
    {Query(origins, DateOfDay(2), DateOfDay(0), m[1], m[2], 0) :
        origins \in RankOriginsInputs, m \in ShoulderInputs}
    \cup {Query(origins, DateOfDay(2), DateOfDay(0), 1, 1, take) :
        origins \in TakeOriginsInputs, take \in 1..MaxTake}

-----------------------------------------------------------------------------
(* Actions *)

Idle == [op |-> "idle"]

Init ==
    /\ startDate = FIXED_DATE
    /\ airports = EmptyStore.airports
    /\ airportsArray = EmptyStore.airportsArray
    /\ outboundStorage = EmptyStore.outboundStorage
    /\ inboundStorage = EmptyStore.inboundStorage
    /\ connections = {}
    /\ call = Idle
    /\ thrown = "none"
    /\ result = <<>>

SetStore(st) ==
    /\ airports' = st.airports
    /\ airportsArray' = st.airportsArray
    /\ outboundStorage' = st.outboundStorage
    /\ inboundStorage' = st.inboundStorage

AddAirport(code) ==
    /\ call = Idle
    /\ SetStore(addAirport(Store, code))
    /\ call' = [op |-> "addAirport", code |-> code]
    /\ thrown' = "none"
    /\ result' = addAirportReturns(Store, code)
    /\ UNCHANGED <<startDate, connections>>

SetConnection(conn) ==
    LET r == setConnection(Store, conn)
    IN  /\ call = Idle
        /\ SetStore(r.store)
        /\ call' = [op |-> "setConnection", conn |-> conn]
        /\ thrown' = r.thrown
        /\ result' = <<>>
        /\ connections' = IF r.thrown = "none" THEN connections \cup {conn}
                                               ELSE connections
        /\ UNCHANGED startDate

Rank(q) ==
    LET r == getDestinationsForDatePair(Store, q)
    IN  /\ call = Idle
        /\ call' = [op |-> "rank", q |-> q]
        /\ thrown' = r.thrown
        /\ result' = r.result
        /\ UNCHANGED <<startDate, storeVars, connections>>

\* the caller is done with what the call returned or threw
Return ==
    /\ call # Idle
    /\ call' = Idle
    /\ thrown' = "none"
    /\ result' = <<>>
    /\ UNCHANGED <<startDate, storeVars, connections>>

Next ==
    \/ \E code \in Codes : AddAirport(code)
    \/ \E conn \in ConnectionInputs :
           Cardinality(connections) < MaxConnections /\ SetConnection(conn)
    \/ \E q \in QueryInputs : Rank(q)
    \/ Return

Spec == Init /\ [][Next]_vars

\* the same program on a store of in-range connections, ranked under many queries
RankNext ==
    \/ \E conn \in RankConnectionInputs :
           Cardinality(connections) < MaxConnections /\ SetConnection(conn)
    \/ \E q \in RankQueryInputs : Rank(q)
    \/ Return

SpecRank == Init /\ [][RankNext]_vars

-----------------------------------------------------------------------------
(* The fixture of the test suite (src/unnamed/part_000) *)

date0 == DateOfDay(8)
date1 == DateOfDay(9)
date2 == DateOfDay(14)
date3 == DateOfDay(15)

FixtureConnections ==
    << Connection("AAA", "CCC", date0, 2, 0),
       Connection("AAA", "DDD", date1, 0, 0),
       Connection("BBB", "CCC", date1, 1, 0),
       Connection("CCC", "AAA", date2, 1, 0),
       Connection("DDD", "AAA", date2, 0, 0),
       Connection("CCC", "BBB", date3, 0, 0) >>

FixtureCodes == {"AAA", "BBB", "CCC", "DDD"}

FixtureQuery ==
    Query(<<Origin("AAA", 2), Origin("BBB", 1), Origin("CCC", 1)>>, date1, date2, 1, 1, 0)

Destination(code, avail, stops, unOut, unIn, outNights, inNights) ==
    [code |-> code, availableOrigins |-> avail, totalStops |-> stops,
     unavailableOutboundOrigins |-> unOut, unavailableInboundOrigins |-> unIn,
     outboundShoulderNights |-> outNights, inboundShoulderNights |-> inNights]

totalCounts ==
    << Destination("CCC", 4, 4, <<>>, <<>>, 2, 1),
       Destination("DDD", 2, 0, <<"CCC", "BBB">>, <<"CCC", "BBB">>, 0, 0),
       Destination("AAA", 0, 0, <<"CCC", "BBB">>, <<"CCC", "BBB">>, 0, 0),
       Destination("BBB", 0, 0, <<"AAA", "CCC">>, <<"AAA", "CCC">>, 0, 0) >>

\* the fixture's connections go in in the order of the test file
FixtureSetConnection ==
    /\ Cardinality(connections) < Len(FixtureConnections)
    /\ SetConnection(FixtureConnections[Cardinality(connections) + 1])

FixtureNext ==
    \/ \E code \in FixtureCodes : AddAirport(code)
    \/ FixtureSetConnection
    \/ Rank(FixtureQuery)
    \/ Return

SpecFixture == Init /\ [][FixtureNext]_vars

-----------------------------------------------------------------------------
(* Reading the stores *)

\* the bits set in one day cell, as <<day, anchor, stops, bit>>
CellBits(cell, day) ==
    UNION {UNION {{<<day, anchor, stops, bit>> : bit \in At(At(cell, anchor), stops).s} :
                  stops \in 0..(Len(At(cell, anchor)) - 1)} :
           anchor \in 0..(Len(cell) - 1)}

\* every bit set in a store
StorageBits(storage) ==
    CellBits(storage.rest, -1) \cup
    UNION {CellBits(storage.days[day], day) : day \in DOMAIN storage.days}

\* no stored bit vector is an inverted one
StoredVectorsPlain(storage) ==
    \A day \in DOMAIN storage.days \cup {-1} :
        \A anchor \in 0..(Len(DayCell(storage, day)) - 1) :
            \A stops \in 0..(Len(At(DayCell(storage, day), anchor)) - 1) :
                ~At(At(DayCell(storage, day), anchor), stops).neg

\* storage[day][anchor][stops] has bit `bit`
BitAt(storage, day, anchor, stops, bit) == <<day, anchor, stops, bit>> \in StorageBits(storage)

IndexOf(code) == airports[code]

InRange(day) == day >= 0 /\ day < MAX_DAYS_SUPPORTED

\* the days some bit of either store is on, and the days next to them
TouchedDays ==
    LET on == DOMAIN outboundStorage.days \cup DOMAIN inboundStorage.days
    IN  {day \in UNION {{d - 1, d, d + 1} : d \in on} : InRange(day)}

-----------------------------------------------------------------------------
(* C1: a setConnection call that fails leaves the registry, the anchor slots *)
(* and every bit of both stores as they were.                                *)

C1_FailedSetConnectionChangesNothing ==
    [][(call'.op = "setConnection" /\ thrown' # "none") => UNCHANGED storeVars]_vars

-----------------------------------------------------------------------------
(* C2: a day index below 0 or at or above MAX_DAYS_SUPPORTED, for the        *)
(* departure or the arrival day of setConnection or for the meeting start or *)
(* end of getDestinationsForDatePair, raises the date-out-of-range error,    *)
(* whatever the registry holds.                                              *)

C2_DayOutOfRangeRaisesDateError ==
    /\ (/\ call.op = "setConnection"
        /\ StopsValid(call.conn.stops)
        /\ \/ ~InRange(DateIndex(call.conn.date))
           \/ ~InRange(DateIndex(call.conn.date) + call.conn.arriveNextDay))
       => thrown = "DateError"
    /\ (/\ call.op = "rank"
        /\ \/ ~InRange(DateIndex(call.q.meetingStart))
           \/ ~InRange(DateIndex(call.q.meetingEnd)))
       => thrown = "DateError"

-----------------------------------------------------------------------------
(* C3: for every tuple (o, d, day, s, delta) of registered airports, a stop  *)
(* count 0..2, delta 0 or 1 and day, day + delta in range, the outbound bit  *)
(* [day + delta][d][s][o] is set iff the inbound bit [day][o][s][d] is set.  *)

C3_EveryTupleCoherent ==
    \A o \in DOMAIN airports, d \in DOMAIN airports :
        \A day \in TouchedDays, s \in 0..MAX_STOPS_SUPPORTED, delta \in {0, 1} :
            InRange(day + delta) =>
                (BitAt(outboundStorage, day + delta, IndexOf(d), s, IndexOf(o))
                 <=> BitAt(inboundStorage, day, IndexOf(o), s, IndexOf(d)))

(* C3 as amended: the two stores hold exactly the stored connections, each   *)
(* connection (o, d, day, s, delta) as the outbound bit                      *)
(* [day + delta][d][s][o] and the inbound bit [day][o][s][d]: every stored   *)
(* connection has both its bits, and every bit of either store is the bit    *)
(* of a stored connection.                                                   *)

C3_StoresHoldTheStoredConnections ==
    /\ StoredVectorsPlain(outboundStorage) /\ StoredVectorsPlain(inboundStorage)
    /\ StorageBits(outboundStorage) =
           {<<DateIndex(c.date) + c.arriveNextDay, IndexOf(c.destinationAirportCode),
              c.stops, IndexOf(c.originAirportCode)>> : c \in connections}
    /\ StorageBits(inboundStorage) =
           {<<DateIndex(c.date), IndexOf(c.originAirportCode),
              c.stops, IndexOf(c.destinationAirportCode)>> : c \in connections}

\* a connection that arrives the next day has just been stored
C3_Witness ==
    /\ call.op = "setConnection" /\ thrown = "none"
    /\ call.conn.arriveNextDay = 1
    /\ BitAt(outboundStorage, DateIndex(call.conn.date) + 1,
             IndexOf(call.conn.destinationAirportCode), call.conn.stops,
             IndexOf(call.conn.originAirportCode))

-----------------------------------------------------------------------------
(* C4: with the airports registered AAA, BBB, CCC, DDD in that order and the *)
(* six fixture connections stored, the fixture query returns the four        *)
(* expected records totalCounts, in order, the unavailable lists in the      *)
(* stated element order.                                                     *)

FixtureRanked ==
    /\ call = [op |-> "rank", q |-> FixtureQuery]
    /\ connections = {FixtureConnections[k] : k \in DOMAIN FixtureConnections}

C4_RegisteredInSpecOrder ==
    (FixtureRanked /\ airportsArray = <<"AAA", "BBB", "CCC", "DDD">>)
        => (thrown = "none" /\ result = totalCounts)

(* C4 as amended: with no airport registered beforehand, so that the six     *)
(* connections register them in first-seen order AAA, CCC, DDD, BBB (as the  *)
(* test does), the fixture query returns totalCounts.                        *)

C4_RegisteredInFirstSeenOrder ==
    (FixtureRanked /\ airportsArray = <<"AAA", "CCC", "DDD", "BBB">>)
        => (thrown = "none" /\ result = totalCounts)

C4_Witness ==
    /\ FixtureRanked
    /\ airportsArray = <<"AAA", "CCC", "DDD", "BBB">>
    /\ result = totalCounts

-----------------------------------------------------------------------------
(* What a query asks of the stored connections, read from the history of     *)
(* setConnection and not from the bit vectors.  dir is "out" (connections    *)
(* arriving at the candidate, shoulder days before the meeting start) or     *)
(* "in" (connections departing the candidate, shoulder days after the end).  *)

Ranked == call.op = "rank" /\ thrown = "none"

Directions == {"out", "in"}

\* the registered codes among the query's origins
QueryOrigins(q) == {q.origins[k].code : k \in DOMAIN q.origins} \cap DOMAIN airports

\* the count of the last entry of a code in the origins list
LastCount(q, code) ==
    q.origins[CHOOSE k \in DOMAIN q.origins :
                  /\ q.origins[k].code = code
                  /\ \A m \in DOMAIN q.origins : m > k => q.origins[m].code # code].count

MaxNights(q, dir) ==
    IF dir = "out" THEN q.maxOutboundShoulderNights ELSE q.maxInboundShoulderNights

\* the day at distance j from the anchor day
DayAt(q, dir, j) ==
    IF dir = "out" THEN DateIndex(q.meetingStart) - j ELSE DateIndex(q.meetingEnd) + j

\* the stored connections between origin o and candidate a on that day
Legs(q, dir, o, a, j) ==
    {c \in connections :
        IF dir = "out"
        THEN /\ c.originAirportCode = o /\ c.destinationAirportCode = a
             /\ DateIndex(c.date) + c.arriveNextDay = DayAt(q, dir, j)
        ELSE /\ c.originAirportCode = a /\ c.destinationAirportCode = o
             /\ DateIndex(c.date) = DayAt(q, dir, j)}

\* o is served on the anchor day or one of the first j shoulder days
ServedWithin(q, dir, o, a, j) == \E i \in 0..j : Legs(q, dir, o, a, i) # {}

\* the shoulder day at distance j is one the loop looks at
Probed(q, dir, a, j) ==
    /\ j \in 1..MaxNights(q, dir)
    /\ Cardinality({o \in QueryOrigins(q) : ServedWithin(q, dir, o, a, j - 1)})
           < Len(q.origins)

\* the days considered: the anchor day and the probed shoulder days
Considered(q, dir, a) == {0} \cup {j \in 1..MaxNights(q, dir) : Probed(q, dir, a, j)}

\* the origins served on a considered day
Served(q, dir, a) ==
    {o \in QueryOrigins(q) : \E j \in Considered(q, dir, a) : Legs(q, dir, o, a, j) # {}}

\* the first considered day that serves o
FirstNight(q, dir, o, a) ==
    Min({j \in Considered(q, dir, a) : Legs(q, dir, o, a, j) # {}})

\* the fewest stops of the connections of o on its first day
FewestStops(q, dir, o, a) ==
    Min({c.stops : c \in Legs(q, dir, o, a, FirstNight(q, dir, o, a))})

RECURSIVE SumOver(_, _)
SumOver(S, f) ==
    IF S = {} THEN 0
    ELSE LET x == CHOOSE y \in S : TRUE IN f[x] + SumOver(S \ {x}, f)

\* the origins that count as an s-stop hit on the considered day j
Hits(q, dir, a, j, s) ==
    {o \in QueryOrigins(q) :
        /\ j > 0 => ~ServedWithin(q, dir, o, a, j - 1)
        /\ \E c \in Legs(q, dir, o, a, j) : c.stops = s
        /\ \A c \in Legs(q, dir, o, a, j) : c.stops >= s}

StopsOf(q, dir, a) ==
    SumOver(Considered(q, dir, a),
            [j \in Considered(q, dir, a) |->
                Cardinality(Hits(q, dir, a, j, 1)) + 2 * Cardinality(Hits(q, dir, a, j, 2))])

NightsOf(q, dir, a) ==
    SumOver(Served(q, dir, a),
            [o \in Served(q, dir, a) |-> LastCount(q, o) * FirstNight(q, dir, o, a)])

\* codes in ascending airport-index order
RECURSIVE InIndexOrder(_)
InIndexOrder(codes) ==
    IF codes = {} THEN <<>>
    ELSE LET first == CHOOSE c \in codes : \A d \in codes : IndexOf(c) <= IndexOf(d)
         IN  <<first>> \o InIndexOrder(codes \ {first})

-----------------------------------------------------------------------------
(* C5: availableOrigins of a candidate is the number of registered query     *)
(* origins with some stored connection arriving at it within                 *)
(* [start - maxOutbound, start], plus the number with some stored connection *)
(* departing it within [end, end + maxInbound]; each origin counts once per  *)
(* direction, and the loop's early exit does not change the count.           *)

C5_AvailableOrigins ==
    Ranked =>
        \A k \in DOMAIN result :
            result[k].availableOrigins =
                Cardinality({o \in QueryOrigins(call.q) :
                    ServedWithin(call.q, "out", o, result[k].code,
                                 call.q.maxOutboundShoulderNights)})
                + Cardinality({o \in QueryOrigins(call.q) :
                    ServedWithin(call.q, "in", o, result[k].code,
                                 call.q.maxInboundShoulderNights)})

\* an origin with connections on the anchor day and on the first shoulder day is
\* counted once, and the shoulder days the query tolerates are not looked at
C5_Witness ==
    /\ Ranked
    /\ call.q.maxOutboundShoulderNights = MaxShoulder
    /\ \E k \in DOMAIN result, o \in QueryOrigins(call.q) :
          /\ Legs(call.q, "out", o, result[k].code, 0) # {}
          /\ Legs(call.q, "out", o, result[k].code, 1) # {}
          /\ ~Probed(call.q, "out", result[k].code, 1)
          /\ result[k].availableOrigins = 1

-----------------------------------------------------------------------------
(* C6: totalStops is the outbound total plus the inbound total, each the sum *)
(* over the days considered of oneStopHits + 2 * twoStopHits: an origin is a *)
(* one-stop hit on a day when it has a one-stop and no direct connection, a  *)
(* two-stop hit when it has a two-stop and neither, and on a shoulder day    *)
(* only origins not served on an earlier considered day count.  So an origin *)
(* adds to the total on one day per direction at most, and 2 at most: the    *)
(* fewest stops of its connections on the first day that serves it.          *)

C6_TotalStops ==
    Ranked =>
        \A k \in DOMAIN result :
            LET a == result[k].code
                fewest(dir) ==
                    SumOver(Served(call.q, dir, a),
                            [o \in Served(call.q, dir, a) |->
                                FewestStops(call.q, dir, o, a)])
            IN  /\ result[k].totalStops =
                       StopsOf(call.q, "out", a) + StopsOf(call.q, "in", a)
                /\ result[k].totalStops = fewest("out") + fewest("in")

\* an origin first served on a shoulder day, by one stop and by two stops, adds 1
C6_Witness ==
    /\ Ranked
    /\ \E k \in DOMAIN result, o \in QueryOrigins(call.q) :
          /\ Probed(call.q, "out", result[k].code, 1)
          /\ Legs(call.q, "out", o, result[k].code, 0) = {}
          /\ {c.stops : c \in Legs(call.q, "out", o, result[k].code, 1)} = {1, 2}
          /\ result[k].totalStops = 1

-----------------------------------------------------------------------------
(* C7: a registered query origin not served on the anchor day and first      *)
(* served on the shoulder day at distance j adds w * j to that direction's   *)
(* shoulder nights, once, w the count of the code's last entry in the        *)
(* origins list; origins served on the anchor day or never add 0.            *)

C7_ShoulderNights ==
    Ranked =>
        \A k \in DOMAIN result :
            /\ result[k].outboundShoulderNights = NightsOf(call.q, "out", result[k].code)
            /\ result[k].inboundShoulderNights = NightsOf(call.q, "in", result[k].code)

\* a code entered twice with different counts, first served two days out
C7_Witness ==
    /\ Ranked
    /\ \E k \in DOMAIN result, o \in QueryOrigins(call.q) :
          /\ \E m \in DOMAIN call.q.origins :
                call.q.origins[m].code = o /\ call.q.origins[m].count # LastCount(call.q, o)
          /\ o \in Served(call.q, "in", result[k].code)
          /\ FirstNight(call.q, "in", o, result[k].code) = 2
          /\ result[k].inboundShoulderNights >= 2 * LastCount(call.q, o)

-----------------------------------------------------------------------------
(* C8: unavailableOutboundOrigins is the codes, in ascending airport-index   *)
(* order, of the registered query origins other than the candidate with no   *)
(* stored connection arriving at it on a considered day, and                 *)
(* unavailableInboundOrigins the same for connections departing it; the      *)
(* candidate's own code is in neither list, served or not.                   *)

C8_UnavailableOrigins ==
    Ranked =>
        \A k \in DOMAIN result :
            LET a == result[k].code
                unserved(dir) == (QueryOrigins(call.q) \ Served(call.q, dir, a)) \ {a}
                codes(list) == {list[m] : m \in DOMAIN list}
            IN  /\ result[k].unavailableOutboundOrigins = InIndexOrder(unserved("out"))
                /\ result[k].unavailableInboundOrigins = InIndexOrder(unserved("in"))
                /\ a \notin codes(result[k].unavailableOutboundOrigins)
                /\ a \notin codes(result[k].unavailableInboundOrigins)

\* the candidate is a query origin that nothing serves, and two others are listed
C8_Witness ==
    /\ Ranked
    /\ \E k \in DOMAIN result :
          /\ result[k].code \in QueryOrigins(call.q)
          /\ result[k].code \notin Served(call.q, "out", result[k].code)
          /\ Len(result[k].unavailableOutboundOrigins) = 2

-----------------------------------------------------------------------------
(* C9: with the store, the origins and the meeting dates fixed, raising      *)
(* maxOutboundShoulder or maxInboundShoulder (the probed days in range)      *)
(* does not lower availableOrigins of any candidate.                         *)

AvailableOriginsOf(list, code) ==
    LET k == CHOOSE m \in DOMAIN list : list[m].code = code
    IN  list[k].availableOrigins

\* every pair of tolerances, <<0, 0>> first
RECURSIVE ToleranceGrid(_, _)
ToleranceGrid(maxOut, maxIn) ==
    IF maxOut > MaxShoulder THEN <<>>
    ELSE IF maxIn > MaxShoulder THEN ToleranceGrid(maxOut + 1, 0)
    ELSE <<<<maxOut, maxIn>>>> \o ToleranceGrid(maxOut, maxIn + 1)

\* the query ranked under each of the tolerances
RECURSIVE RankedUnder(_, _)
RankedUnder(q, tolerances) ==
    IF tolerances = <<>> THEN <<>>
    ELSE <<getDestinationsForDatePair(Store,
               [q EXCEPT !.maxOutboundShoulderNights = Head(tolerances)[1],
                         !.maxInboundShoulderNights = Head(tolerances)[2]])>>
         \o RankedUnder(q, Tail(tolerances))

\* C9: raising either tolerance does not lower availableOrigins of any candidate.
\* Checked where the call had no tolerance: the call's result, and the same query
\* under every other pair of tolerances, compared pair by pair
C9_MonotoneCoverage ==
    (/\ Ranked /\ call.q.take = 0
     /\ call.q.maxOutboundShoulderNights = 0 /\ call.q.maxInboundShoulderNights = 0) =>
        \A grid \in {ToleranceGrid(0, 0)} :
        \A ranked \in {<<[thrown |-> thrown, result |-> result]>>
                        \o RankedUnder(call.q, Tail(grid))} :
            \A lo \in DOMAIN grid, hi \in DOMAIN grid :
                (/\ grid[lo][1] <= grid[hi][1] /\ grid[lo][2] <= grid[hi][2]
                 /\ ranked[lo].thrown = "none" /\ ranked[hi].thrown = "none") =>
                    \A code \in DOMAIN airports :
                        AvailableOriginsOf(ranked[hi].result, code)
                            >= AvailableOriginsOf(ranked[lo].result, code)

\* a wider tolerance raises the count of some candidate
C9_Witness ==
    /\ Ranked /\ call.q.take = 0
    /\ call.q.maxOutboundShoulderNights = 0 /\ call.q.maxInboundShoulderNights = 0
    /\ LET more == getDestinationsForDatePair(Store,
                       [call.q EXCEPT !.maxOutboundShoulderNights = 1,
                                      !.maxInboundShoulderNights = MaxShoulder])
       IN  /\ more.thrown = "none"
           /\ \E k \in DOMAIN result :
                 AvailableOriginsOf(more.result, result[k].code)
                     > result[k].availableOrigins

-----------------------------------------------------------------------------
(* C10: the returned list is in non-increasing availableOrigins order,       *)
(* records with equal availableOrigins in registration order; with take 0 it *)
(* holds one record per registered airport, and with take > 0 it is the      *)
(* first min(take, registry size) records of the take 0 result.              *)

C10_RankingOrder ==
    Ranked =>
        /\ \A k \in DOMAIN result, m \in DOMAIN result :
              k < m =>
                  \/ result[k].availableOrigins > result[m].availableOrigins
                  \/ /\ result[k].availableOrigins = result[m].availableOrigins
                     /\ IndexOf(result[k].code) < IndexOf(result[m].code)
        /\ call.q.take = 0 =>
              /\ Len(result) = Len(airportsArray)
              /\ {result[k].code : k \in DOMAIN result} = DOMAIN airports
        /\ call.q.take > 0 =>
              LET all == getDestinationsForDatePair(Store, [call.q EXCEPT !.take = 0]).result
                  n == IF call.q.take < Len(airportsArray) THEN call.q.take
                                                           ELSE Len(airportsArray)
              IN  result = SubSeq(all, 1, n)

\* a take that cuts the list, after the sort has moved a later airport to the front
C10_Witness ==
    /\ Ranked
    /\ call.q.take > 1 /\ call.q.take < Len(airportsArray)
    /\ Len(result) = call.q.take
    /\ IndexOf(result[1].code) > IndexOf(result[2].code)

-----------------------------------------------------------------------------
(* C11: along any sequence of addAirport, setConnection (successful or       *)
(* failing) and getDestinationsForDatePair calls, a bit set in either store  *)
(* stays set at the same [day][anchor][stops][bit] position, and no anchor   *)
(* slot is removed or reordered: the registry keeps its codes at their       *)
(* indices and no day cell loses a slot.                                     *)

\* no bit of the store is cleared and no day cell is shortened by the step
StorageOnlyGrows(before, after) ==
    \/ after = before
    \/ /\ before.len = after.len
       /\ StorageBits(before) \subseteq StorageBits(after)
       /\ \A day \in DOMAIN before.days \cup DOMAIN after.days \cup {-1} :
             Len(DayCell(before, day)) <= Len(DayCell(after, day))

C11_AppendOnly ==
    [][/\ StorageOnlyGrows(outboundStorage, outboundStorage')
       /\ StorageOnlyGrows(inboundStorage, inboundStorage')
       /\ Len(airportsArray) <= Len(airportsArray')
       /\ SubSeq(airportsArray', 1, Len(airportsArray)) = airportsArray]_vars

\* an airport has just been registered on a store that holds connections, and
\* their bits are where they were written
C11_Witness ==
    /\ call.op = "addAirport" /\ result = TRUE
    /\ connections # {}
    /\ \A c \in connections :
          /\ BitAt(outboundStorage, DateIndex(c.date) + c.arriveNextDay,
                   IndexOf(c.destinationAirportCode), c.stops,
                   IndexOf(c.originAirportCode))
          /\ BitAt(inboundStorage, DateIndex(c.date), IndexOf(c.originAirportCode),
                   c.stops, IndexOf(c.destinationAirportCode))

-----------------------------------------------------------------------------
(* C12: in every reachable state the registry map has as many codes as the   *)
(* index -> code sequence is long, the indices are exactly 0..size-1,        *)
(* codeOf(indexOf(c)) = c for every registered code, and every day cell of   *)
(* both stores has exactly size anchor slots of MAX_STOPS_SUPPORTED + 1 bit  *)
(* vectors; along every step an index once assigned does not change, and     *)
(* addAirport returns true iff the code was not registered before the call   *)
(* and otherwise returns false and changes nothing.                          *)

\* every day cell of the store has size slots of MAX_STOPS_SUPPORTED + 1 vectors
SlotsMatchRegistry(storage) ==
    /\ storage.len = MAX_DAYS_SUPPORTED
    /\ \A day \in DOMAIN storage.days \cup {-1} :
          /\ Len(DayCell(storage, day)) = Len(airportsArray)
          /\ \A anchor \in 0..(Len(airportsArray) - 1) :
                Len(At(DayCell(storage, day), anchor)) = MAX_STOPS_SUPPORTED + 1

RegistryIsBijection ==
    /\ Cardinality(DOMAIN airports) = Len(airportsArray)
    /\ {airports[c] : c \in DOMAIN airports} = 0..(Len(airportsArray) - 1)
    /\ \A c \in DOMAIN airports : At(airportsArray, IndexOf(c)) = c
    /\ SlotsMatchRegistry(outboundStorage)
    /\ SlotsMatchRegistry(inboundStorage)

IndicesKept ==
    \A c \in DOMAIN airports : c \in DOMAIN airports' /\ airports'[c] = airports[c]

AddAirportContract ==
    call'.op = "addAirport" =>
        /\ result' = (call'.code \notin DOMAIN airports)
        /\ call'.code \in DOMAIN airports'
        /\ call'.code \in DOMAIN airports => UNCHANGED storeVars
        /\ call'.code \notin DOMAIN airports =>
               /\ airports'[call'.code] = Len(airportsArray)
               /\ airportsArray' = Append(airportsArray, call'.code)

C12_IndexBijection ==
    /\ []RegistryIsBijection
    /\ [][IndicesKept /\ AddAirportContract]_vars

\* addAirport has just returned false for a code that setConnection registered,
\* on a registry of two codes or more
C12_Witness ==
    /\ call.op = "addAirport" /\ result = FALSE
    /\ Len(airportsArray) >= 2
    /\ \E c \in connections :
          call.code \in {c.originAirportCode, c.destinationAirportCode}

-----------------------------------------------------------------------------
(* C13: a call whose meeting days and shoulder windows are in range and      *)
(* whose origins list holds codes that are not registered does not fail, and *)
(* returns the list, every field of every record and the order, that the     *)
(* same call returns with those entries removed from origins, although the   *)
(* entries count in N = origins.length of the shoulder loops' condition.     *)

\* the meeting days and every day of both tolerated windows are day cells
CallInRange(q) ==
    /\ InRange(DateIndex(q.meetingStart)) /\ InRange(DateIndex(q.meetingEnd))
    /\ InRange(DateIndex(q.meetingStart) - q.maxOutboundShoulderNights)
    /\ InRange(DateIndex(q.meetingEnd) + q.maxInboundShoulderNights)

\* the origins list without the entries of unregistered codes
RegisteredOrigins(q) == SelectSeq(q.origins, LAMBDA o : o.code \in DOMAIN airports)

C13_UnknownOriginsIgnored ==
    (/\ call.op = "rank" /\ CallInRange(call.q)
     /\ RegisteredOrigins(call.q) # call.q.origins) =>
        /\ thrown = "none"
        /\ \A without \in {getDestinationsForDatePair(
                                Store, [call.q EXCEPT !.origins = RegisteredOrigins(call.q)])} :
              without.thrown = "none" /\ result = without.result

\* a candidate every registered origin reaches on the anchor day, and again the day
\* before: with the unregistered entry in the list the loop goes on to that day,
\* without it the loop is not entered
C13_Witness ==
    /\ Ranked /\ CallInRange(call.q)
    /\ call.q.maxOutboundShoulderNights > 0
    /\ RegisteredOrigins(call.q) # call.q.origins
    /\ RegisteredOrigins(call.q) # <<>>
    /\ \E k \in DOMAIN result :
          /\ \A o \in QueryOrigins(call.q) :
                /\ Legs(call.q, "out", o, result[k].code, 0) # {}
                /\ Legs(call.q, "out", o, result[k].code, 1) # {}
          /\ Cardinality(QueryOrigins(call.q)) = Len(RegisteredOrigins(call.q))
          /\ Probed(call.q, "out", result[k].code, 1)
          /\ result[k].availableOrigins = Len(RegisteredOrigins(call.q))

====
